---- MODULE Spec2Model ----
(***************************************************************************)
(* A model of cvrdt-exposition: the six state-based CRDTs of the crate     *)
(* (OneWayBoolean, GCounter, GSet, LWWRegister, PNCounter, TwoPhaseSet),   *)
(* the Grow / Shrink operations each implements, and three state machines  *)
(* built from them:                                                        *)
(*                                                                         *)
(*   LawSpec  three instances x, y, z of one type, drawn from bounded sets *)
(*            of valid payloads, on which add, del and merge are applied;  *)
(*            the lattice laws are invariants of it.                       *)
(*   Spec     a set of replicas of one type that update locally, send      *)
(*            their payloads and merge payloads received in any order,     *)
(*            any number of times.                                         *)
(*   CallSpec one caller that constructs two instances from any payloads,  *)
(*            valid or not, makes one call on them and, after a merge, one *)
(*            update of the instance the merge returned.                   *)
(*                                                                         *)
(* Rust vectors are 0-based and TLA+ sequences 1-based: slot i of a Rust   *)
(* vector v is v[i + 1] here, and ids keep their Rust (0-based) values.    *)
(* A panic is modelled by the operation leaving the state unchanged and    *)
(* recording the panic in the variable outcome. Counts are u64 in the      *)
(* source and CountBits bits wide here; += 1 on the largest count panics   *)
(* or wraps, as the overflow checks of the build decide.                   *)
(***************************************************************************)
EXTENDS Naturals, Sequences, FiniteSets

(***************************************************************************)
(* Bounds of the model.                                                    *)
(***************************************************************************)
\* replicas of the system; also the longest count vector drawn
NumReplicas == 2
\* elements a set may hold / values a register may hold: 1..NumElems
NumElems == 2
\* the largest sum of the counts of a counter drawn or produced by an update
MaxTotal == 1
\* timestamps (Instants) are 0..MaxTime
MaxTime == 2
\* payloads the network remembers besides the final ones
MaxSent == 2
\* local updates (add, del) made in one run of the system
MaxUpdates == 3
\* bits of a count: the u64 of the source, scaled down
CountBits == 2

Kinds == {"OneWayBoolean", "GCounter", "GSet", "LWWRegister", "PNCounter", "TwoPhaseSet"}
Elems == 1..NumElems
Times == 0..MaxTime
Replicas == 0..(NumReplicas - 1)

\* u64::MAX, the largest count a slot represents
CountMax == 2^CountBits - 1

(***************************************************************************)
(* Helpers standing for Rust's iterator and integer primitives.            *)
(***************************************************************************)
\* usize::min / u64::min
Min(a, b) == IF a <= b THEN a ELSE b

\* u64::max
Max(a, b) == IF a >= b THEN a ELSE b

\* Iterator::sum over a vector
RECURSIVE Sum(_)
Sum(v) == IF v = <<>> THEN 0 ELSE Head(v) + Sum(Tail(v))

(***************************************************************************)
(* OneWayBoolean (one_way_boolean.rs)                                      *)
(***************************************************************************)
OneWayBoolean_new(payload) == [flag |-> payload]

OneWayBoolean_payload(self) == self.flag

OneWayBoolean_add(self) == [self EXCEPT !.flag = TRUE]

\* bool's <= has false <= true
OneWayBoolean_le(self, other) == self.flag => other.flag

\* variant: the flag of the merge is set only if both flags are
OneWayBoolean_merge_both(self, other) == [flag |-> self.flag /\ other.flag]

OneWayBoolean_merge(self, other) == [flag |-> self.flag \/ other.flag]

OneWayBoolean_query(self) == self.flag

(***************************************************************************)
(* GCounter (g_counter.rs)                                                 *)
(***************************************************************************)
\* mutant: a shorter vector is compared over its own length
GCounter_compatible_shorter(self, other) == Len(self.counts) <= Len(other.counts)

\* the assert_eq! of compatible_len passes
GCounter_compatible(self, other) == Len(self.counts) = Len(other.counts)

GCounter_compatible_len(self, other) == Len(self.counts)

GCounter_new(payload) == [id |-> payload[1], counts |-> payload[2]]

GCounter_payload(self) == <<self.id, self.counts>>

\* the index self.counts[self.id] is in bounds
GCounter_add_in_bounds(self) == self.id < Len(self.counts)

\* the += 1 of add overflows the u64 slot
GCounter_add_overflows(self) == self.counts[self.id + 1] = CountMax

\* mutant: the += 1 saturates at the largest count
GCounter_add_saturates(self) ==
    [self EXCEPT !.counts[self.id + 1] = Min(@ + 1, CountMax)]

\* += 1 on a u64: where it is not checked, an overflow wraps to 0
GCounter_add(self) == [self EXCEPT !.counts[self.id + 1] = (@ + 1) % (CountMax + 1)]

GCounter_le(self, other) ==
    LET n == GCounter_compatible_len(self, other)
    IN  \A i \in 1..n : self.counts[i] <= other.counts[i]

\* mutant: the merged counter keeps the receiver's id
GCounter_merge_keeps_id(self, other) ==
    [id     |-> self.id,
     counts |-> [i \in 1..Len(self.counts) |-> Max(self.counts[i], other.counts[i])]]

\* mutant: the counts are added up
GCounter_merge_sums(self, other) ==
    [id     |-> Min(self.id, other.id),
     counts |-> [i \in 1..Len(self.counts) |-> self.counts[i] + other.counts[i]]]

\* variant: the merged counter gets the sum of the two ids
GCounter_merge_adds_ids(self, other) ==
    [id     |-> self.id + other.id,
     counts |-> [i \in 1..GCounter_compatible_len(self, other) |->
                    Max(self.counts[i], other.counts[i])]]

GCounter_merge(self, other) ==
    LET n == GCounter_compatible_len(self, other)
    IN  [id     |-> Min(self.id, other.id),
         counts |-> [i \in 1..n |-> Max(self.counts[i], other.counts[i])]]

\* the sum of query overflows u64
GCounter_query_overflows(self) == Sum(self.counts) > CountMax

\* the sum of the counts as a u64: where it is not checked, an overflow wraps
GCounter_query(self) == Sum(self.counts) % (CountMax + 1)

(***************************************************************************)
(* GSet (g_set.rs)                                                         *)
(***************************************************************************)
GSet_new(payload) == [values |-> payload]

GSet_payload(self) == self.values

\* mutant: the set is replaced by the new element
GSet_add_replaces(self, update) == [self EXCEPT !.values = {update}]

GSet_add(self, update) == [self EXCEPT !.values = @ \cup {update}]

GSet_le(self, other) == self.values \subseteq other.values

GSet_merge(self, other) == [values |-> self.values \cup other.values]

GSet_query(self, query) == query \in self.values

(***************************************************************************)
(* LWWRegister (lww_register.rs). Instant::now() is the parameter now.     *)
(***************************************************************************)
LWWRegister_new(payload) == [value |-> payload[1], timestamp |-> payload[2]]

LWWRegister_payload(self) == <<self.value, self.timestamp>>

\* mutant: the assert! of add demands a later clock reading
LWWRegister_add_strict(self, now) == self.timestamp < now

\* the assert! of add passes
LWWRegister_add_monotonic(self, now) == self.timestamp <= now

LWWRegister_add(self, update, now) == [value |-> update, timestamp |-> now]

LWWRegister_le(self, other) == self.timestamp <= other.timestamp

\* mutant: the timestamps are compared with != instead of <
LWWRegister_merge_unequal(self, other) ==
    IF self.timestamp # other.timestamp THEN other ELSE self

\* mutant: on equal timestamps the other register wins
LWWRegister_merge_ties_other(self, other) ==
    IF self.timestamp <= other.timestamp THEN other ELSE self

LWWRegister_merge(self, other) ==
    IF self.timestamp < other.timestamp THEN other ELSE self

LWWRegister_query(self) == self.value

(***************************************************************************)
(* PNCounter (pn_counter.rs)                                               *)
(***************************************************************************)
\* mutant: consistent compares the lengths only
PNCounter_consistent_lengths(self) == Len(self.positive) = Len(self.negative)

\* the three asserts of consistent pass
PNCounter_consistent(self) ==
    /\ Len(self.positive) = Len(self.negative)
    /\ self.id < Len(self.positive)
    /\ self.id < Len(self.negative)

\* the asserts of compatible_len pass
PNCounter_compatible(self, other) ==
    /\ PNCounter_consistent(self)
    /\ PNCounter_consistent(other)
    /\ Len(self.positive) = Len(other.positive)
    /\ Len(self.negative) = Len(other.negative)

PNCounter_compatible_len(self, other) == Len(self.positive)

PNCounter_new(payload) ==
    [id |-> payload[1], positive |-> payload[2], negative |-> payload[3]]

\* mutant: payload hands out the two vectors in the other order
PNCounter_payload_swapped(self) == <<self.id, self.negative, self.positive>>

PNCounter_payload(self) == <<self.id, self.positive, self.negative>>

\* the index self.positive[self.id] is in bounds
PNCounter_add_in_bounds(self) == self.id < Len(self.positive)

\* the += 1 of add overflows the u64 slot
PNCounter_add_overflows(self) == self.positive[self.id + 1] = CountMax

PNCounter_add(self) == [self EXCEPT !.positive[self.id + 1] = (@ + 1) % (CountMax + 1)]

PNCounter_le(self, other) ==
    LET n == PNCounter_compatible_len(self, other)
    IN  \A i \in 1..n : /\ self.positive[i] <= other.positive[i]
                        /\ self.negative[i] <= other.negative[i]

\* mutant: the merged negative counts are the smaller ones
PNCounter_merge_min_negative(self, other) ==
    [id       |-> Min(self.id, other.id),
     positive |-> [i \in 1..Len(self.positive) |->
                      Max(self.positive[i], other.positive[i])],
     negative |-> [i \in 1..Len(self.positive) |->
                      Min(self.negative[i], other.negative[i])]]

PNCounter_merge(self, other) ==
    LET n == PNCounter_compatible_len(self, other)
    IN  [id       |-> Min(self.id, other.id),
         positive |-> [i \in 1..n |-> Max(self.positive[i], other.positive[i])],
         negative |-> [i \in 1..n |-> Max(self.negative[i], other.negative[i])]]

\* one of the two sums of query overflows u64
PNCounter_query_sum_overflows(self) ==
    Sum(self.positive) > CountMax \/ Sum(self.negative) > CountMax

\* the subtraction of query underflows: the negative sum is the larger one
PNCounter_query_underflows(self) ==
    Sum(self.negative) % (CountMax + 1) > Sum(self.positive) % (CountMax + 1)

\* query, its sums and its difference wrapping as u64 arithmetic wraps
PNCounter_query(self) ==
    ((Sum(self.positive) % (CountMax + 1)) + (CountMax + 1)
        - (Sum(self.negative) % (CountMax + 1))) % (CountMax + 1)

\* the index self.negative[self.id] is in bounds
PNCounter_del_in_bounds(self) == self.id < Len(self.negative)

\* the += 1 of del overflows the u64 slot
PNCounter_del_overflows(self) == self.negative[self.id + 1] = CountMax

PNCounter_del(self) == [self EXCEPT !.negative[self.id + 1] = (@ + 1) % (CountMax + 1)]

(***************************************************************************)
(* TwoPhaseSet (two_phase_set.rs)                                          *)
(***************************************************************************)
TwoPhaseSet_new(payload) == [added |-> payload[1], removed |-> payload[2]]

TwoPhaseSet_payload(self) == <<self.added, self.removed>>

\* mutant: an add takes the tombstone of the element away
TwoPhaseSet_add_revives(self, update) ==
    [added |-> self.added \cup {update}, removed |-> self.removed \ {update}]

TwoPhaseSet_add(self, update) == [self EXCEPT !.added = @ \cup {update}]

TwoPhaseSet_le(self, other) ==
    self.added \subseteq other.added /\ self.removed \subseteq other.removed

\* mutant: the tombstones of the other set are dropped
TwoPhaseSet_merge_own_removed(self, other) ==
    [added   |-> self.added \cup other.added,
     removed |-> self.removed]

\* mutant: the merged set takes over the other's removals, not its additions
TwoPhaseSet_merge_own_added(self, other) ==
    [added |-> self.added, removed |-> self.removed \cup other.removed]

TwoPhaseSet_merge(self, other) ==
    [added   |-> self.added \cup other.added,
     removed |-> self.removed \cup other.removed]

\* mutant: every added element is a member
TwoPhaseSet_query_added(self, query) == query \in self.added

TwoPhaseSet_query(self, query) == query \in self.added /\ query \notin self.removed

\* mutant: only the new tombstone is kept
TwoPhaseSet_del_replaces(self, x) == [self EXCEPT !.removed = {x}]

\* del after its assert! has passed
TwoPhaseSet_del(self, x) == [self EXCEPT !.removed = @ \cup {x}]

(***************************************************************************)
(* The Grow and Shrink traits (traits.rs): each operation dispatched on    *)
(* the implementing type, as the generic property suite of properties.rs   *)
(* calls them.                                                             *)
(***************************************************************************)
\* counters take the unit update (); sets and the register take an element
Unit == <<>>

Updates(k) == IF k \in {"OneWayBoolean", "GCounter", "PNCounter"} THEN {Unit} ELSE Elems

new(k, p) ==
    CASE k = "OneWayBoolean" -> OneWayBoolean_new(p)
      [] k = "GCounter"      -> GCounter_new(p)
      [] k = "GSet"          -> GSet_new(p)
      [] k = "LWWRegister"   -> LWWRegister_new(p)
      [] k = "PNCounter"     -> PNCounter_new(p)
      [] k = "TwoPhaseSet"   -> TwoPhaseSet_new(p)

\* new returns without panicking: the PNCounter's consistent asserts
new_returns(k, p) ==
    CASE k = "PNCounter" -> PNCounter_consistent(PNCounter_new(p))
      [] OTHER           -> TRUE

payload(k, self) ==
    CASE k = "OneWayBoolean" -> OneWayBoolean_payload(self)
      [] k = "GCounter"      -> GCounter_payload(self)
      [] k = "GSet"          -> GSet_payload(self)
      [] k = "LWWRegister"   -> LWWRegister_payload(self)
      [] k = "PNCounter"     -> PNCounter_payload(self)
      [] k = "TwoPhaseSet"   -> TwoPhaseSet_payload(self)

\* add returns without panicking: the register's clock assert, the counters' index
add_returns(k, self, now) ==
    CASE k = "LWWRegister" -> LWWRegister_add_monotonic(self, now)
      [] k = "GCounter"    -> GCounter_add_in_bounds(self)
      [] k = "PNCounter"   -> PNCounter_add_in_bounds(self)
      [] OTHER             -> TRUE

\* the += 1 of add overflows: a panic in a build with overflow checks (the
\* default of the dev and test profiles), a wrap to 0 in one without (the
\* default of the release profile)
add_overflows(k, self) ==
    CASE k = "GCounter"  -> GCounter_add_overflows(self)
      [] k = "PNCounter" -> PNCounter_add_overflows(self)
      [] OTHER           -> FALSE

\* add returns without panicking in a build whose overflow checks are on or off
add_completes(k, self, now, checks) ==
    add_returns(k, self, now) /\ ~(checks /\ add_overflows(k, self))

add(k, self, update, now) ==
    CASE k = "OneWayBoolean" -> OneWayBoolean_add(self)
      [] k = "GCounter"      -> GCounter_add(self)
      [] k = "GSet"          -> GSet_add(self, update)
      [] k = "LWWRegister"   -> LWWRegister_add(self, update, now)
      [] k = "PNCounter"     -> PNCounter_add(self)
      [] k = "TwoPhaseSet"   -> TwoPhaseSet_add(self, update)

\* le and merge return without panicking: the counters' compatible_len asserts
compatible(k, self, other) ==
    CASE k = "GCounter"  -> GCounter_compatible(self, other)
      [] k = "PNCounter" -> PNCounter_compatible(self, other)
      [] OTHER           -> TRUE

le(k, self, other) ==
    CASE k = "OneWayBoolean" -> OneWayBoolean_le(self, other)
      [] k = "GCounter"      -> GCounter_le(self, other)
      [] k = "GSet"          -> GSet_le(self, other)
      [] k = "LWWRegister"   -> LWWRegister_le(self, other)
      [] k = "PNCounter"     -> PNCounter_le(self, other)
      [] k = "TwoPhaseSet"   -> TwoPhaseSet_le(self, other)

merge(k, self, other) ==
    CASE k = "OneWayBoolean" -> OneWayBoolean_merge(self, other)
      [] k = "GCounter"      -> GCounter_merge(self, other)
      [] k = "GSet"          -> GSet_merge(self, other)
      [] k = "LWWRegister"   -> LWWRegister_merge(self, other)
      [] k = "PNCounter"     -> PNCounter_merge(self, other)
      [] k = "TwoPhaseSet"   -> TwoPhaseSet_merge(self, other)

\* mutant: merge assigns the merged state to its receiver
merge_assigns(k, self, other) == <<merge(k, self, other), other>>

\* the two operands after a call of merge, which borrows both by shared reference
\* (&self, other: &Self) and builds its result from clones of their fields
merge_borrows(k, self, other) == <<self, other>>

\* the types that implement Shrink
Shrinks == {"PNCounter", "TwoPhaseSet"}

\* del returns without panicking: the set's membership assert, the counter's index
del_returns(k, self, update) ==
    CASE k = "TwoPhaseSet" -> TwoPhaseSet_query(self, update)
      [] k = "PNCounter"   -> PNCounter_del_in_bounds(self)

\* the += 1 of del overflows
del_overflows(k, self) ==
    CASE k = "PNCounter" -> PNCounter_del_overflows(self)
      [] OTHER           -> FALSE

\* del returns without panicking in a build whose overflow checks are on or off
del_completes(k, self, update, checks) ==
    del_returns(k, self, update) /\ ~(checks /\ del_overflows(k, self))

del(k, self, update) ==
    CASE k = "PNCounter"   -> PNCounter_del(self)
      [] k = "TwoPhaseSet" -> TwoPhaseSet_del(self, update)

\* the sets answer a query for an element, the other types the unit query ()
Queries(k) == IF k \in {"GSet", "TwoPhaseSet"} THEN Elems ELSE {Unit}

\* the arithmetic of query overflows: a panic in a build with overflow checks
query_overflows(k, self) ==
    CASE k = "GCounter"  -> GCounter_query_overflows(self)
      [] k = "PNCounter" ->
             PNCounter_query_sum_overflows(self) \/ PNCounter_query_underflows(self)
      [] OTHER           -> FALSE

\* query returns without panicking in a build whose overflow checks are on or off
query_completes(k, self, checks) == ~(checks /\ query_overflows(k, self))

query(k, self, q) ==
    CASE k = "OneWayBoolean" -> OneWayBoolean_query(self)
      [] k = "GCounter"      -> GCounter_query(self)
      [] k = "GSet"          -> GSet_query(self, q)
      [] k = "LWWRegister"   -> LWWRegister_query(self)
      [] k = "PNCounter"     -> PNCounter_query(self)
      [] k = "TwoPhaseSet"   -> TwoPhaseSet_query(self, q)

(***************************************************************************)
(* Bounded sets of valid payloads, as the generators of the crate's tests  *)
(* draw them: any flag, any set, any value and timestamp, any count vector *)
(* of the given length with any id below that length.                      *)
(***************************************************************************)
\* count vectors of length n
Vectors(n) == {v \in [1..n -> 0..MaxTotal] : Sum(v) <= MaxTotal}

\* the sum of all the counts a counter holds (0 for the other types)
Total(k, self) ==
    CASE k = "GCounter"  -> Sum(self.counts)
      [] k = "PNCounter" -> Sum(self.positive) + Sum(self.negative)
      [] OTHER           -> 0

Payloads(k, n) ==
    CASE k = "OneWayBoolean" -> BOOLEAN
      [] k = "GCounter"      -> (0..(n - 1)) \X Vectors(n)
      [] k = "GSet"          -> SUBSET Elems
      [] k = "LWWRegister"   -> Elems \X Times
      [] k = "PNCounter"     ->
             {p \in (0..(n - 1)) \X Vectors(n) \X Vectors(n) :
                 Sum(p[2]) + Sum(p[3]) <= MaxTotal}
      [] k = "TwoPhaseSet"   -> (SUBSET Elems) \X (SUBSET Elems)

Instances(k, n) == {new(k, p) : p \in {q \in Payloads(k, n) : new_returns(k, q)}}

\* the vector lengths drawn for a counter (the other types have no length)
Lengths(k) == IF k \in {"GCounter", "PNCounter"} THEN 1..NumReplicas ELSE {0}

\* the value a register of the system is created with: none that add writes
InitialValue == NumElems + 1

\* the payload a replica of the system is created from: nothing added yet,
\* and for a counter its own slot in a vector with one slot per replica
Bottom(k, r) ==
    CASE k = "OneWayBoolean" -> FALSE
      [] k = "GCounter"      -> <<r, [i \in 1..NumReplicas |-> 0]>>
      [] k = "GSet"          -> {}
      [] k = "LWWRegister"   -> <<InitialValue, 0>>
      [] k = "PNCounter"     ->
             <<r, [i \in 1..NumReplicas |-> 0], [i \in 1..NumReplicas |-> 0]>>
      [] k = "TwoPhaseSet"   -> <<{}, {}>>

\* the value of a variable the specification at hand does not use
Unused == <<>>

(***************************************************************************)
(* Payloads as a caller may hand them to new, valid or not: a count vector *)
(* of any length, the empty one included, with any id, and counts from the *)
(* whole u64 range. The sets are kept small by drawing counts near either  *)
(* end of the range only.                                                  *)
(***************************************************************************)
\* how far a count is from 0, counting round the end of the u64 range
Weight(c) == Min(c, CountMax + 1 - c)

RECURSIVE VectorWeight(_)
VectorWeight(v) == IF v = <<>> THEN 0 ELSE Weight(Head(v)) + VectorWeight(Tail(v))

\* count vectors of length 0..NumReplicas
RawVectors ==
    UNION {{v \in [1..n -> 0..CountMax] : VectorWeight(v) <= MaxTotal} : n \in 0..NumReplicas}

\* ids: valid for the longest vector, and one past it
RawIds == 0..NumReplicas

PayloadWeight(k, p) ==
    CASE k = "GCounter"  -> VectorWeight(p[2])
      [] k = "PNCounter" -> VectorWeight(p[2]) + VectorWeight(p[3])
      [] OTHER           -> 0

RawGCounterPayloads == {<<id, counts>> : id \in RawIds, counts \in RawVectors}

RawPNCounterPayloads ==
    {p \in {<<id, positive, negative>> :
                id \in RawIds, positive \in RawVectors, negative \in RawVectors} :
        VectorWeight(p[2]) + VectorWeight(p[3]) <= MaxTotal}

RawPayloads(k) ==
    CASE k = "GCounter"  -> RawGCounterPayloads
      [] k = "PNCounter" -> RawPNCounterPayloads
      [] OTHER           -> Payloads(k, 0)

\* the payloads of each type, by their weight
RawPayloadsOfWeight ==
    [k \in Kinds |->
        [w \in 0..MaxTotal |-> {p \in RawPayloads(k) : PayloadWeight(k, p) = w}]]

\* the weights of the two payloads a caller hands to new: MaxTotal at most,
\* the two together
RawWeightPairs == {w \in (0..MaxTotal) \X (0..MaxTotal) : w[1] + w[2] <= MaxTotal}

\* a variable that holds no instance (yet)
NotBuilt == [built |-> FALSE]

Built(v) == "built" \notin DOMAIN v

(***************************************************************************)
(* State.                                                                  *)
(***************************************************************************)
VARIABLES
    kind,       \* the type of every instance of the run
    x, y, z,    \* LawSpec: three instances of that type
    now,        \* LawSpec: the reading Instant::now() gives
    outcome,    \* LawSpec: the last operation applied to x, and whether it panicked
    replica,    \* Spec: the instance each replica holds
    clock,      \* Spec: the reading Instant::now() gives on each replica
    sent,       \* Spec: the payloads sent so far, each deliverable again and again
    updates,    \* Spec: the number of local updates made so far
    stopped,    \* Spec: the local updates have stopped
    final,      \* Spec: once stopped, the payload each replica held at that moment
    merged,     \* Spec: the replicas whose final payload each replica has merged
    last,       \* Spec: the last call made on each replica: its name, its argument
    args,       \* CallSpec: the two payloads handed to new
    result      \* CallSpec: what the last le, merge, query or payload returned

lawVars == <<x, y, z, now, outcome>>
sysVars == <<replica, clock, sent, updates, stopped, final, merged, last>>
callVars == <<args, result>>
vars == <<kind, x, y, z, now, outcome, replica, clock, sent, updates, stopped, final,
          merged, last, args, result>>

(***************************************************************************)
(* LawSpec: the operations applied to arbitrary valid instances.           *)
(***************************************************************************)
LawInit ==
    /\ kind \in Kinds
    /\ \E n \in Lengths(kind) :
          /\ x \in Instances(kind, n)
          /\ y \in Instances(kind, n)
          /\ z \in Instances(kind, n)
    /\ now \in (IF kind = "LWWRegister" THEN Times ELSE {0})
    /\ outcome = "new"
    /\ replica = Unused /\ clock = Unused /\ sent = Unused /\ updates = Unused
    /\ stopped = Unused /\ final = Unused /\ merged = Unused /\ last = Unused
    /\ args = Unused /\ result = Unused

\* x.add(u) in a build whose overflow checks are on or off; a counter is not
\* counted past MaxTotal
LawAddOf(u, checks) ==
    /\ Total(kind, x) < MaxTotal
    /\ IF add_completes(kind, x, now, checks)
       THEN x' = add(kind, x, u, now) /\ outcome' = "add"
       ELSE x' = x /\ outcome' = "add panicked"
    /\ UNCHANGED <<kind, y, z, now, sysVars, callVars>>

LawAdd == \E u \in Updates(kind), checks \in BOOLEAN : LawAddOf(u, checks)

\* x.del(u) in a build whose overflow checks are on or off
LawDelOf(u, checks) ==
    /\ kind \in Shrinks
    /\ Total(kind, x) < MaxTotal
    /\ IF del_completes(kind, x, u, checks)
       THEN x' = del(kind, x, u) /\ outcome' = "del"
       ELSE x' = x /\ outcome' = "del panicked"
    /\ UNCHANGED <<kind, y, z, now, sysVars, callVars>>

LawDel == \E u \in Updates(kind), checks \in BOOLEAN : LawDelOf(u, checks)

\* x = x.merge(&y)
LawMerge ==
    /\ IF compatible(kind, x, y)
       THEN x' = merge(kind, x, y) /\ outcome' = "merge"
       ELSE x' = x /\ outcome' = "merge panicked"
    /\ UNCHANGED <<kind, y, z, now, sysVars, callVars>>

\* time passes between two calls of Instant::now()
LawTick ==
    /\ kind = "LWWRegister"
    /\ now < MaxTime
    /\ now' = now + 1
    /\ UNCHANGED <<kind, x, y, z, outcome, sysVars, callVars>>

LawNext == LawAdd \/ LawDel \/ LawMerge \/ LawTick

LawSpec == LawInit /\ [][LawNext]_vars

(***************************************************************************)
(* Spec: replicas of one type. Each is created from the bottom payload,    *)
(* updates itself with add and del, sends its payload at any moment, and   *)
(* replaces its state by the merge of its state and any payload sent so    *)
(* far: a payload stays deliverable, so it may arrive late, out of order   *)
(* and repeatedly. A call that panics changes nothing and is no step.      *)
(* Stop marks the moment after which no replica updates any more; the      *)
(* payloads held at that moment are the final ones.                        *)
(***************************************************************************)
Init ==
    /\ kind \in Kinds
    /\ replica = [r \in Replicas |-> new(kind, Bottom(kind, r))]
    /\ clock = [r \in Replicas |-> 0]
    /\ sent = {}
    /\ updates = 0
    /\ stopped = FALSE
    /\ final = Unused
    /\ merged = [r \in Replicas |-> {}]
    /\ last = [r \in Replicas |-> <<"new", Unit>>]
    /\ x = Unused /\ y = Unused /\ z = Unused /\ now = Unused /\ outcome = Unused
    /\ args = Unused /\ result = Unused

\* replica r calls add(u)
Add(r) ==
    /\ ~stopped
    /\ updates < MaxUpdates
    /\ add_returns(kind, replica[r], clock[r])
    /\ \E u \in Updates(kind) :
          /\ replica' = [replica EXCEPT ![r] = add(kind, @, u, clock[r])]
          /\ last' = [last EXCEPT ![r] = <<"add", u>>]
    /\ updates' = updates + 1
    /\ UNCHANGED <<kind, clock, sent, stopped, final, merged, lawVars, callVars>>

\* replica r calls del(u)
Del(r) ==
    /\ ~stopped
    /\ kind \in Shrinks
    /\ updates < MaxUpdates
    /\ \E u \in Updates(kind) :
          /\ del_returns(kind, replica[r], u)
          /\ replica' = [replica EXCEPT ![r] = del(kind, @, u)]
          /\ last' = [last EXCEPT ![r] = <<"del", u>>]
    /\ updates' = updates + 1
    /\ UNCHANGED <<kind, clock, sent, stopped, final, merged, lawVars, callVars>>

\* time passes on replica r
Tick(r) ==
    /\ ~stopped
    /\ kind = "LWWRegister"
    /\ clock[r] < MaxTime
    /\ clock' = [clock EXCEPT ![r] = @ + 1]
    /\ UNCHANGED <<kind, replica, sent, updates, stopped, final, merged, last, lawVars,
                   callVars>>

\* replica r sends its payload
Send(r) ==
    /\ Cardinality(sent) < MaxSent
    /\ payload(kind, replica[r]) \notin sent
    /\ sent' = sent \cup {payload(kind, replica[r])}
    /\ UNCHANGED <<kind, replica, clock, updates, stopped, final, merged, last, lawVars,
                   callVars>>

\* replica r merges the payload p
ReceiveOf(r, p) ==
    /\ compatible(kind, replica[r], new(kind, p))
    /\ replica' = [replica EXCEPT ![r] = merge(kind, @, new(kind, p))]
    /\ last' = [last EXCEPT ![r] = <<"merge", p>>]
    /\ UNCHANGED <<kind, clock, sent, updates, stopped, final, merged, lawVars, callVars>>

\* replica r merges a payload sent earlier by any replica
Receive(r) == \E p \in sent : ReceiveOf(r, p)

\* the updates stop
Stop ==
    /\ ~stopped
    /\ stopped' = TRUE
    /\ final' = [r \in Replicas |-> payload(kind, replica[r])]
    /\ UNCHANGED <<kind, replica, clock, sent, updates, merged, last, lawVars, callVars>>

\* replica r merges the final payload of replica s
ReceiveFinal(r, s) ==
    /\ stopped
    /\ s # r
    /\ compatible(kind, replica[r], new(kind, final[s]))
    /\ replica' = [replica EXCEPT ![r] = merge(kind, @, new(kind, final[s]))]
    /\ merged' = [merged EXCEPT ![r] = @ \cup {s}]
    /\ last' = [last EXCEPT ![r] = <<"merge", final[s]>>]
    /\ UNCHANGED <<kind, clock, sent, updates, stopped, final, lawVars, callVars>>

Next ==
    \/ \E r \in Replicas : Add(r)
    \/ \E r \in Replicas : Del(r)
    \/ \E r \in Replicas : Tick(r)
    \/ \E r \in Replicas : Send(r)
    \/ \E r \in Replicas : Receive(r)
    \/ Stop
    \/ \E r, s \in Replicas : ReceiveFinal(r, s)

Spec == Init /\ [][Next]_vars

(***************************************************************************)
(* CallSpec: one caller, as a test case or a doc example of the crate:     *)
(* let x = new(p); let y = new(q); then one call on them, and after a      *)
(* merge one add or del on the instance it returned. A call that           *)
(* panics ends the run with everything as it was before the call.          *)
(***************************************************************************)
CallInit ==
    /\ kind \in Kinds
    /\ \E w \in RawWeightPairs :
          \E p \in RawPayloadsOfWeight[kind][w[1]], q \in RawPayloadsOfWeight[kind][w[2]] :
              args = <<p, q>>
    /\ x = NotBuilt
    /\ y = NotBuilt
    /\ outcome = "start"
    /\ result = Unused
    /\ z = Unused /\ now = Unused
    /\ replica = Unused /\ clock = Unused /\ sent = Unused /\ updates = Unused
    /\ stopped = Unused /\ final = Unused /\ merged = Unused /\ last = Unused

\* let x = new(p)
CallNewX ==
    /\ outcome = "start"
    /\ IF new_returns(kind, args[1])
       THEN x' = new(kind, args[1]) /\ outcome' = "new x"
       ELSE x' = x /\ outcome' = "new x panicked"
    /\ UNCHANGED <<kind, y, z, now, args, result, sysVars>>

\* let y = new(q)
CallNewY ==
    /\ outcome = "new x"
    /\ IF new_returns(kind, args[2])
       THEN y' = new(kind, args[2]) /\ outcome' = "new y"
       ELSE y' = y /\ outcome' = "new y panicked"
    /\ UNCHANGED <<kind, x, z, now, args, result, sysVars>>

\* x.add(u), at any clock reading, in a build whose overflow checks are on or off
CallAdd ==
    /\ outcome = "new y"
    /\ \E u \in Updates(kind), checks \in BOOLEAN,
          t \in (IF kind = "LWWRegister" THEN Times ELSE {0}) :
          IF add_completes(kind, x, t, checks)
          THEN x' = add(kind, x, u, t) /\ outcome' = "add"
          ELSE x' = x /\ outcome' = "add panicked"
    /\ UNCHANGED <<kind, y, z, now, args, result, sysVars>>

\* x.del(u) in a build whose overflow checks are on or off
CallDelOf(u, checks) ==
    /\ outcome = "new y"
    /\ kind \in Shrinks
    /\ IF del_completes(kind, x, u, checks)
       THEN x' = del(kind, x, u) /\ outcome' = "del"
       ELSE x' = x /\ outcome' = "del panicked"
    /\ UNCHANGED <<kind, y, z, now, args, result, sysVars>>

CallDel == \E u \in Updates(kind), checks \in BOOLEAN : CallDelOf(u, checks)

\* x.le(&y)
CallLe ==
    /\ outcome = "new y"
    /\ IF compatible(kind, x, y)
       THEN result' = le(kind, x, y) /\ outcome' = "le"
       ELSE result' = result /\ outcome' = "le panicked"
    /\ UNCHANGED <<kind, x, y, z, now, args, sysVars>>

\* let mut m = x.merge(&y)
CallMerge ==
    /\ outcome = "new y"
    /\ IF compatible(kind, x, y)
       THEN /\ result' = merge(kind, x, y)
            /\ x' = merge_borrows(kind, x, y)[1]
            /\ y' = merge_borrows(kind, x, y)[2]
            /\ outcome' = "merge"
       ELSE result' = result /\ x' = x /\ y' = y /\ outcome' = "merge panicked"
    /\ UNCHANGED <<kind, z, now, args, sysVars>>

\* m.add(u) on the instance merge returned
CallAddMerged ==
    /\ outcome = "merge"
    /\ \E u \in Updates(kind), checks \in BOOLEAN,
          t \in (IF kind = "LWWRegister" THEN Times ELSE {0}) :
          IF add_completes(kind, result, t, checks)
          THEN result' = add(kind, result, u, t) /\ outcome' = "merged add"
          ELSE result' = result /\ outcome' = "merged add panicked"
    /\ UNCHANGED <<kind, x, y, z, now, args, sysVars>>

\* m.del(u) on the instance merge returned
CallDelMerged ==
    /\ outcome = "merge"
    /\ kind \in Shrinks
    /\ \E u \in Updates(kind), checks \in BOOLEAN :
          IF del_completes(kind, result, u, checks)
          THEN result' = del(kind, result, u) /\ outcome' = "merged del"
          ELSE result' = result /\ outcome' = "merged del panicked"
    /\ UNCHANGED <<kind, x, y, z, now, args, sysVars>>

\* x.payload()
CallPayload ==
    /\ outcome = "new y"
    /\ result' = payload(kind, x)
    /\ outcome' = "payload"
    /\ UNCHANGED <<kind, x, y, z, now, args, sysVars>>

\* x.query(&q) in a build whose overflow checks are on or off
CallQueryOf(q, checks) ==
    /\ outcome = "new y"
    /\ IF query_completes(kind, x, checks)
       THEN result' = query(kind, x, q) /\ outcome' = "query"
       ELSE result' = result /\ outcome' = "query panicked"
    /\ UNCHANGED <<kind, x, y, z, now, args, sysVars>>

CallQuery == \E q \in Queries(kind), checks \in BOOLEAN : CallQueryOf(q, checks)

CallNext ==
    \/ CallNewX \/ CallNewY \/ CallAdd \/ CallDel \/ CallLe \/ CallMerge \/ CallQuery
    \/ CallAddMerged \/ CallDelMerged \/ CallPayload

CallSpec == CallInit /\ [][CallNext]_vars

(***************************************************************************)
(* Definitions shared by the properties.                                   *)
(***************************************************************************)
\* the types C1 and C3 are about: all but the register
Joinable == Kinds \ {"LWWRegister"}

\* two instances hold equal payloads
SamePayload(a, b) == payload(kind, a) = payload(kind, b)

\* the updates have stopped and every replica has merged the final payload of
\* every other replica
AllFinalsMerged == stopped = TRUE /\ \A r \in Replicas : merged[r] = Replicas \ {r}

\* all replicas hold equal payloads
Converged == \A r, s \in Replicas : SamePayload(replica[r], replica[s])

\* merge(a, b) and merge(b, a) hold equal payloads
Commutes(a, b) == SamePayload(merge(kind, a, b), merge(kind, b, a))

(***************************************************************************)
(* C1. Convergence of OneWayBoolean, GCounter, GSet, PNCounter and         *)
(* TwoPhaseSet: once the updates have stopped and every replica has merged *)
(* the final payload of every other replica, all replicas hold equal       *)
(* payloads (the id of a counter included), whatever payloads, stale or    *)
(* repeated, they merged before or after.                                  *)
(***************************************************************************)
C1_Convergence == (kind \in Joinable /\ AllFinalsMerged) => Converged

\* counters that stopped with different ids, each ahead of the other in its own
\* slot, with a stale payload (older than a final one) on the network, and that
\* now hold neither final payload
C1_Witness ==
    /\ kind = "GCounter"
    /\ AllFinalsMerged
    /\ final[0][1] # final[1][1]
    /\ final[0][2][1] > final[1][2][1]
    /\ final[1][2][2] > final[0][2][2]
    /\ \E p \in sent :
          /\ Sum(p[2]) > 0
          /\ p # final[0]
          /\ le(kind, new(kind, p), new(kind, final[0]))
    /\ \A r \in Replicas : payload(kind, replica[0]) # final[r]

\* every final payload of a register was written by add: its value is not
\* the one the register was created with
EveryFinalWritten == \A r \in Replicas : final[r][1] # InitialValue

(***************************************************************************)
(* C2. Convergence of LWWRegister: once the updates have stopped and every *)
(* replica has merged the final payload of every other replica, all        *)
(* replicas hold the same (value, timestamp) and answer query alike. Each  *)
(* replica stamps its adds with its own non-decreasing clock, and two      *)
(* clocks may give the same reading. Stated for the runs in which every    *)
(* replica has written its final value by add.                             *)
(***************************************************************************)
C2_RegisterConvergence ==
    (kind = "LWWRegister" /\ AllFinalsMerged /\ EveryFinalWritten) =>
        /\ Converged
        /\ \A r, s \in Replicas :
              LWWRegister_query(replica[r]) = LWWRegister_query(replica[s])

(***************************************************************************)
(* C3. merge is commutative for OneWayBoolean, GCounter, GSet, PNCounter   *)
(* and TwoPhaseSet: merge(a, b) and merge(b, a) hold equal payloads, the   *)
(* id of a counter included, for every two of the instances x, y, z.       *)
(***************************************************************************)
C3_MergeCommutative ==
    kind \in Joinable => Commutes(x, y) /\ Commutes(x, z) /\ Commutes(y, z)

\* after a merge into x: counters x and z of different ids, neither below the other
C3_Witness ==
    /\ kind = "PNCounter"
    /\ outcome = "merge"
    /\ x.id # z.id
    /\ ~le(kind, x, z) /\ ~le(kind, z, x)
    /\ x.id > payload(kind, merge(kind, x, z))[1]

(***************************************************************************)
(* C4. merge of LWWRegister is commutative: merge(a, b) and merge(b, a)    *)
(* hold equal payloads for all registers, equal timestamps included.       *)
(***************************************************************************)
C4_RegisterMergeCommutative ==
    kind = "LWWRegister" => Commutes(x, y) /\ Commutes(x, z) /\ Commutes(y, z)

(***************************************************************************)
(* C5. merge is associative for all six types: merge(x, merge(y, z)) and   *)
(* merge(merge(x, y), z) hold equal payloads.                              *)
(***************************************************************************)
C5_MergeAssociative ==
    SamePayload(merge(kind, x, merge(kind, y, z)), merge(kind, merge(kind, x, y), z))

\* after a merge into x: x and z tie on the timestamp with different values,
\* and y is older
C5_Witness ==
    /\ kind = "LWWRegister"
    /\ outcome = "merge"
    /\ x.timestamp = z.timestamp /\ x.value # z.value
    /\ y.timestamp < x.timestamp
    /\ merge(kind, y, z) = z
    /\ merge(kind, x, merge(kind, y, z)) = x

(***************************************************************************)
(* C6. merge is idempotent for all six types: merge(merge(x, y), y) and    *)
(* merge(x, y) hold equal payloads, and so do merge(x, x) and x.           *)
(***************************************************************************)
C6_MergeIdempotent ==
    /\ SamePayload(merge(kind, merge(kind, x, y), y), merge(kind, x, y))
    /\ SamePayload(merge(kind, x, x), x)

\* after a merge into x of two counters that were not comparable (x counts
\* more than any counter drawn or added to): merging y again changes nothing
C6_Witness ==
    /\ kind = "GCounter"
    /\ outcome = "merge"
    /\ Total(kind, x) > MaxTotal
    /\ x.counts # y.counts
    /\ merge(kind, x, y) = x

(***************************************************************************)
(* C7. merge is the least upper bound under le for all six types: x and y  *)
(* are below merge(x, y), and merge(x, y) is below every z that x and y    *)
(* are both below.                                                         *)
(***************************************************************************)
C7_MergeIsLeastUpperBound ==
    LET m == merge(kind, x, y)
    IN  /\ le(kind, x, m)
        /\ le(kind, y, m)
        /\ (le(kind, x, z) /\ le(kind, y, z)) => le(kind, m, z)

\* after a merge into x: x is above y and not equal to it, and z is an upper
\* bound of both that is more than x
C7_Witness ==
    /\ kind = "TwoPhaseSet"
    /\ outcome = "merge"
    /\ le(kind, y, x) /\ ~le(kind, x, y)
    /\ le(kind, x, z) /\ le(kind, y, z)
    /\ ~le(kind, z, x)

(***************************************************************************)
(* C8. le is the order induced by merge, for all six types and counters of *)
(* any ids: le(x, y) holds if and only if merge(x, y) and y hold equal     *)
(* payloads.                                                               *)
(***************************************************************************)
C8_LeIsInducedOrder == le(kind, x, y) <=> SamePayload(merge(kind, x, y), y)

(***************************************************************************)
(* C9. le is a partial order on payloads for all six types: reflexive,     *)
(* transitive, and antisymmetric (instances below each other hold equal    *)
(* payloads).                                                              *)
(***************************************************************************)
C9_LeIsPartialOrder ==
    /\ le(kind, x, x)
    /\ (le(kind, x, y) /\ le(kind, y, z)) => le(kind, x, z)
    /\ (le(kind, x, y) /\ le(kind, y, x)) => SamePayload(x, y)

(***************************************************************************)
(* C10. add is monotonic for OneWayBoolean, GSet, TwoPhaseSet and          *)
(* LWWRegister: x is below x after add(u), for every update u; for the     *)
(* register whenever the clock reading is not before x's timestamp.        *)
(***************************************************************************)
C10_AddMonotonic ==
    kind \in {"OneWayBoolean", "GSet", "TwoPhaseSet", "LWWRegister"} =>
        \A u \in Updates(kind) :
            (kind = "LWWRegister" => x.timestamp <= now) =>
                /\ add_returns(kind, x, now)
                /\ le(kind, x, add(kind, x, u, now))

\* a register just written by add, at a clock reading later than y's timestamp
C10_Witness ==
    /\ kind = "LWWRegister"
    /\ outcome = "add"
    /\ x.timestamp = now
    /\ y.timestamp < now
    /\ x.value # y.value

\* the counters: the types whose payload holds u64 counts
Counters == {"GCounter", "PNCounter"}

\* the step is a call of add or del on x
UpdateCalled == outcome' \in {"add", "add panicked", "del", "del panicked"}

(***************************************************************************)
(* C11. add on GCounter and add and del on PNCounter are monotonic with    *)
(* bounded counts: called on any valid counter x, the slot at its own id   *)
(* holding the largest count included, the call returns and leaves a state *)
(* that x is below.                                                        *)
(***************************************************************************)
C11_BoundedAddMonotonic ==
    [][(kind \in Counters /\ outcome = "new y" /\ UpdateCalled /\ add_returns(kind, x, 0)) =>
           (outcome' \in {"add", "del"} /\ le(kind, x, x'))]_vars

(***************************************************************************)
(* C12. del on TwoPhaseSet is monotonic: called on a set x with a live     *)
(* member u (added and not removed), del(u) returns and leaves a state     *)
(* that x is below, whose removed set is x's with u and whose added set is *)
(* x's.                                                                    *)
(***************************************************************************)
C12_DelMonotonic ==
    [][kind = "TwoPhaseSet" =>
          \A u \in Elems, checks \in BOOLEAN :
              (CallDelOf(u, checks) /\ u \in x.added /\ u \notin x.removed) =>
                  /\ outcome' = "del"
                  /\ le(kind, x, x')
                  /\ x'.removed = x.removed \cup {u}
                  /\ x'.added = x.added]_vars

\* after a del: x holds two tombstones of elements it had added
C12_Witness ==
    /\ kind = "TwoPhaseSet"
    /\ outcome = "del"
    /\ Cardinality(x.removed) = 2
    /\ x.removed \subseteq x.added

(***************************************************************************)
(* C13. Tombstones of TwoPhaseSet are permanent: an element in the removed *)
(* set of a replica stays there, and query of it is false, after every     *)
(* later step of the replica: an add of the element, a del, a merge of a   *)
(* payload in which the element is added and not removed.                  *)
(***************************************************************************)
C13_TombstonesPermanent ==
    [][kind = "TwoPhaseSet" =>
          \A r \in Replicas, e \in Elems :
              e \in replica[r].removed =>
                  /\ e \in replica'[r].removed
                  /\ ~TwoPhaseSet_query(replica'[r], e)]_vars

\* an element with a tombstone on both replicas: replica 0 has just called add
\* of it again, replica 1 has just merged a payload in which it is live
C13_Witness ==
    /\ kind = "TwoPhaseSet"
    /\ \E e \in Elems :
          /\ e \in replica[0].removed
          /\ last[0] = <<"add", e>>
          /\ e \in replica[1].removed
          /\ last[1][1] = "merge"
          /\ e \in last[1][2][1] /\ e \notin last[1][2][2]
          /\ ~TwoPhaseSet_query(replica[0], e)
          /\ ~TwoPhaseSet_query(replica[1], e)

(***************************************************************************)
(* C14. del(e) on a TwoPhaseSet of which e is no live member (never added, *)
(* or already removed) panics and leaves the added and the removed set as  *)
(* they were.                                                              *)
(***************************************************************************)
C14_DelNonMemberFails ==
    [][kind = "TwoPhaseSet" =>
          \A u \in Elems, checks \in BOOLEAN :
              (CallDelOf(u, checks) /\ ~(u \in x.added /\ u \notin x.removed)) =>
                  /\ outcome' = "del panicked"
                  /\ x'.added = x.added
                  /\ x'.removed = x.removed]_vars

\* after a del that panicked, on a set with no live member: one element
\* added and removed already, the other never added
C14_Witness ==
    /\ kind = "TwoPhaseSet"
    /\ outcome = "del panicked"
    /\ Cardinality(x.added) = 1
    /\ x.removed = x.added

\* new(p) has been called for x / for y
NewXCalled == outcome # "start"
NewYCalled == outcome \notin {"start", "new x", "new x panicked"}

(***************************************************************************)
(* C15. GCounter::new validates its payload: called with an id that is no  *)
(* index into the counts vector (id >= length, the empty vector included)  *)
(* it panics and returns no instance, so that the id of every GCounter     *)
(* constructed is an index add can use.                                    *)
(***************************************************************************)
C15_GCounterNewValidates ==
    (kind = "GCounter" /\ NewXCalled) =>
        /\ args[1][1] >= Len(args[1][2]) => (outcome = "new x panicked" /\ ~Built(x))
        /\ Built(x) => GCounter_add_in_bounds(x)

\* the payload of a PNCounter passes the checks the claim names
PNCounterValid(p) == Len(p[2]) = Len(p[3]) /\ p[1] < Len(p[2])

(***************************************************************************)
(* C16. PNCounter::new panics when the positive and negative vectors       *)
(* differ in length or the id is not less than their length, and returns   *)
(* an instance for every other payload.                                    *)
(***************************************************************************)
C16_PNCounterNewValidates ==
    kind = "PNCounter" =>
        /\ NewXCalled =>
              IF PNCounterValid(args[1])
              THEN Built(x) /\ outcome # "new x panicked"
              ELSE ~Built(x) /\ outcome = "new x panicked"
        /\ NewYCalled =>
              IF PNCounterValid(args[2])
              THEN Built(y) /\ outcome # "new y panicked"
              ELSE ~Built(y) /\ outcome = "new y panicked"

\* new has returned x and panicked for y, whose vectors are of equal length,
\* not empty, and whose id is that length
C16_Witness ==
    /\ kind = "PNCounter"
    /\ outcome = "new y panicked"
    /\ Built(x) /\ ~Built(y)
    /\ Len(args[2][2]) = Len(args[2][3])
    /\ Len(args[2][2]) > 0
    /\ args[2][1] = Len(args[2][2])

\* the length of the count vectors of a counter
CountsLen(self) == IF kind = "GCounter" THEN Len(self.counts) ELSE Len(self.positive)

(***************************************************************************)
(* C17. le(x, y) and merge(x, y) on two GCounters or two PNCounters whose  *)
(* count vectors differ in length panic: no boolean and no instance is     *)
(* returned, and x and y are left as they were.                            *)
(***************************************************************************)
C17_LengthMismatchPanics ==
    [][(/\ kind \in Counters
        /\ outcome = "new y"
        /\ CountsLen(x) # CountsLen(y)
        /\ outcome' \in {"le", "le panicked", "merge", "merge panicked"}) =>
           /\ outcome' \in {"le panicked", "merge panicked"}
           /\ result' = Unused
           /\ x' = x /\ y' = y]_vars

\* after a merge that panicked: x of length 1 and id 0, y of length 2 and id 1
C17_Witness ==
    /\ kind = "GCounter"
    /\ outcome = "merge panicked"
    /\ x.id = 0 /\ Len(x.counts) = 1
    /\ y.id = 1 /\ Len(y.counts) = 2
    /\ result = Unused

(***************************************************************************)
(* C18. add(u) on an LWWRegister at clock reading now: if now is before    *)
(* the stored timestamp the call panics and leaves value and timestamp as  *)
(* they were; otherwise it returns with value u and timestamp now, query   *)
(* returns u, and the timestamp has not decreased.                         *)
(***************************************************************************)
C18_RegisterAdd ==
    [][kind = "LWWRegister" =>
          \A u \in Elems, checks \in BOOLEAN :
              LawAddOf(u, checks) =>
                  IF now < x.timestamp
                  THEN /\ outcome' = "add panicked"
                       /\ x'.value = x.value
                       /\ x'.timestamp = x.timestamp
                  ELSE /\ outcome' = "add"
                       /\ x'.value = u
                       /\ x'.timestamp = now
                       /\ LWWRegister_query(x') = u
                       /\ x'.timestamp >= x.timestamp]_vars

\* after an add that panicked: the register holds a timestamp the clock has
\* not reached, although the clock has advanced
C18_Witness ==
    /\ kind = "LWWRegister"
    /\ outcome = "add panicked"
    /\ now > 0
    /\ now < x.timestamp

(***************************************************************************)
(* C19. Round trip for all six types: payload(new(p)) = p for every        *)
(* payload p that new accepts; nothing is normalised (the id and the       *)
(* vectors of a counter, the sets, the value and the timestamp are handed  *)
(* back as given).                                                         *)
(***************************************************************************)
C19_RoundTrip ==
    /\ outcome \in {"new x", "new y", "new y panicked"} => payload(kind, x) = args[1]
    /\ outcome = "new y" => payload(kind, y) = args[2]

\* a PNCounter just constructed, with an id other than 0 and vectors that differ
C19_Witness ==
    /\ kind = "PNCounter"
    /\ outcome = "new x"
    /\ x.id > 0
    /\ x.positive # x.negative
    /\ args[1][2] # args[1][3]

\* the merge of the states of all the replicas up to replica r
RECURSIVE MergeUpTo(_)
MergeUpTo(r) == IF r = 0 THEN replica[0] ELSE merge(kind, MergeUpTo(r - 1), replica[r])

(***************************************************************************)
(* C20. No lost increments in GCounter: for replicas created with distinct *)
(* ids over all-zero vectors of one length, after any interleaving of adds *)
(* and of merges of another replica's payload into the own state, the      *)
(* query of the merge of the states of all replicas is the number of add   *)
(* calls made on all replicas.                                             *)
(***************************************************************************)
C20_NoLostIncrements ==
    kind = "GCounter" => GCounter_query(MergeUpTo(NumReplicas - 1)) = updates

(***************************************************************************)
(* C21. The query of a PNCounter is total: in every state a replica        *)
(* reaches from the all-zero payload by add, del and merge, in any order   *)
(* and with del called before or more often than add, query returns        *)
(* without panicking, whatever the build, and what it returns is the sum   *)
(* of positive minus the sum of negative.                                  *)
(***************************************************************************)
C21_QueryTotal ==
    kind = "PNCounter" =>
        \A r \in Replicas :
            /\ ~query_overflows(kind, replica[r])
            /\ query(kind, replica[r], Unit) + Sum(replica[r].negative)
                   = Sum(replica[r].positive)

(***************************************************************************)
(* C22. OneWayBoolean is one-way: a replica starts with its flag false;    *)
(* an add makes the flag true; a flag that is true stays true in every     *)
(* later step, whether an add or a merge; and the flag of a merge is true  *)
(* whenever the flag of either operand is.                                 *)
(***************************************************************************)
C22_OneWay ==
    [][kind = "OneWayBoolean" =>
          \A r \in Replicas :
              /\ replica[r].flag => replica'[r].flag
              /\ Add(r) => replica'[r].flag
              /\ \A p \in sent :
                    ReceiveOf(r, p) => (replica[r].flag \/ p => replica'[r].flag)
              /\ \A s \in Replicas :
                    ReceiveFinal(r, s) => (replica[r].flag \/ final[s] => replica'[r].flag)]_vars

\* one add was made on replica 0, which then merged a false payload and is
\* still true; replica 1 became true by merging a true payload
C22_Witness ==
    /\ kind = "OneWayBoolean"
    /\ updates = 1
    /\ replica[0].flag /\ last[0] = <<"merge", FALSE>>
    /\ replica[1].flag /\ last[1] = <<"merge", TRUE>>

\* the id of a counter is an index of its count vectors, and a PNCounter's two
\* vectors have one length
ValidCounter(k, self) ==
    CASE k = "GCounter"  -> self.id < Len(self.counts)
      [] k = "PNCounter" ->
             Len(self.positive) = Len(self.negative) /\ self.id < Len(self.positive)

\* the lengths of the count vectors of a counter
Lengths_of(k, self) ==
    CASE k = "GCounter"  -> <<Len(self.counts)>>
      [] k = "PNCounter" -> <<Len(self.positive), Len(self.negative)>>

(***************************************************************************)
(* C23. Structural invariant of the vector counters: a valid counter (id   *)
(* below the vector length; positive and negative of one length) is valid  *)
(* again after every add, del and merge with a counter of the same length: *)
(* no vector changes its length and the id, which a merge may replace by   *)
(* the smaller of the two, is still an index.                              *)
(***************************************************************************)
C23_StructuralInvariant ==
    [][(kind \in Counters /\ ValidCounter(kind, x)) =>
          (ValidCounter(kind, x') /\ Lengths_of(kind, x') = Lengths_of(kind, x))]_vars

\* a del on a PNCounter of two slots that a merge before it gave the id 0
C23_Witness ==
    /\ kind = "PNCounter"
    /\ outcome = "del"
    /\ x.id = 0 /\ y.id = 0
    /\ x.positive = <<0, 0>> /\ x.negative = <<1, 0>>
    /\ ValidCounter(kind, x)

\* the vector v with 1 added to slot i, and nothing else changed
SlotPlusOne(v, i) == [v EXCEPT ![i] = @ + 1]

(***************************************************************************)
(* C24. Counter updates touch exactly one slot: on a valid counter, add    *)
(* returns and adds exactly 1 to counts[id] (for a PNCounter, to           *)
(* positive[id]), del returns and adds exactly 1 to negative[id]; the id,  *)
(* every other slot and the other vector of a PNCounter are unchanged; and *)
(* where query returned a value before the update, it returns that value   *)
(* plus 1 after an add and that value minus 1 after a del.                 *)
(***************************************************************************)
C24_OneSlotUpdates ==
    [][(kind \in Counters /\ outcome = "new y" /\ UpdateCalled /\ ValidCounter(kind, x)) =>
          /\ outcome' \in {"add", "del"}
          /\ x'.id = x.id
          /\ IF kind = "GCounter"
             THEN x'.counts = SlotPlusOne(x.counts, x.id + 1)
             ELSE IF outcome' = "add"
                  THEN /\ x'.positive = SlotPlusOne(x.positive, x.id + 1)
                       /\ x'.negative = x.negative
                  ELSE /\ x'.negative = SlotPlusOne(x.negative, x.id + 1)
                       /\ x'.positive = x.positive
          /\ ~query_overflows(kind, x) =>
                /\ ~query_overflows(kind, x')
                /\ IF outcome' = "add"
                   THEN query(kind, x', Unit) = query(kind, x, Unit) + 1
                   ELSE query(kind, x', Unit) + 1 = query(kind, x, Unit)]_vars

\* the calls that borrow their operands by shared reference, and the updates of
\* the instance a merge returned
ReadCalled ==
    outcome' \in {"le", "le panicked", "merge", "merge panicked", "query", "query panicked",
                  "payload", "merged add", "merged add panicked", "merged del",
                  "merged del panicked"}

C27_TwoPhaseSetQuery ==
    [][(kind = "TwoPhaseSet" /\ outcome = "new y") =>
          /\ outcome' = "query" =>
                \A q \in Queries(kind) :
                    CallQueryOf(q, TRUE) =>
                        (result' <=> (q \in x.added /\ q \notin x.removed))
          /\ outcome' = "merge" =>
                \A e \in Elems :
                    query(kind, result', e) <=>
                        /\ e \in x.added \cup y.added
                        /\ e \notin x.removed
                        /\ e \notin y.removed]_vars

\* a merge: element 1 is live in x and removed in y, and not in the merged
\* set; element 2 is added in x only, and in the merged set
C27_Witness ==
    /\ kind = "TwoPhaseSet"
    /\ outcome = "merge"
    /\ TwoPhaseSet_query(x, 1) /\ 1 \in y.added /\ 1 \in y.removed
    /\ ~TwoPhaseSet_query(result, 1)
    /\ TwoPhaseSet_query(x, 2) /\ 2 \notin y.added
    /\ TwoPhaseSet_query(result, 2)

(***************************************************************************)
(* C28. removed within added: for replicas of a TwoPhaseSet that all start *)
(* from the empty payload, after any sequence of add, of del that returns  *)
(* and of merge of payloads sent among them, the removed set of every      *)
(* replica is a subset of its added set.                                   *)
(***************************************************************************)
C28_RemovedWithinAdded ==
    kind = "TwoPhaseSet" => \A r \in Replicas : replica[r].removed \subseteq replica[r].added

\* replica 0 added and deleted element 1; replica 1 added element 2 and then
\* merged the payload of replica 0
C28_Witness ==
    /\ kind = "TwoPhaseSet"
    /\ last[0] = <<"del", 1>>
    /\ replica[0].removed = {1}
    /\ last[1] = <<"merge", <<{1}, {1}>>>>
    /\ replica[1].added = {1, 2}
    /\ replica[1].removed = {1}

====
